---- MODULE Spec2Model ----
(***************************************************************************)
(* A model of paddle.distribution.Uniform                                  *)
(* (src/python/paddle/distribution/uniform.py).                            *)
(*                                                                         *)
(* State: the evaluation mode (in_dynamic_mode()), the Uniform object      *)
(* (self.low, self.high, self.dtype, self.all_arg_is_float, self.name,     *)
(* the batch shape handed to Distribution.__init__), the state of the      *)
(* global random generator, and a record of the last call and its result.  *)
(*                                                                         *)
(* Tensors are records [sshape, shape, dtype, data]: sshape is what        *)
(* `.shape` reports while the program is built (-1 for a dimension known   *)
(* only when it runs), shape is the shape at run time, data the elements   *)
(* in row-major order.                                                     *)
(*                                                                         *)
(* Numbers are binary floating-point numbers of a scaled-down format: an   *)
(* integer n stands for n / One, a dtype keeps Precision(dtype) bits of    *)
(* significand, and every arithmetic result is rounded to the nearest      *)
(* number of its dtype, ties to even, as IEEE 754 arithmetic does.         *)
(***************************************************************************)
EXTENDS Integers, Sequences, FiniteSets, TLC

VARIABLES mode, given, self, rng, last

vars == <<mode, given, self, rng, last>>

(***************************************************************************)
(* Bounds of the model.                                                    *)
(***************************************************************************)
\* largest size of a dimension of a parameter or of a sample shape
MaxDim == 2
\* largest seed passed to sample
MaxSeed == 1

(***************************************************************************)
(* Floating-point numbers.                                                 *)
(***************************************************************************)
\* the integer that stands for 1.0
One == 4

FloatDtypes == {"float32", "float64"}

\* bits of significand a dtype keeps
Precision(dtype) == IF dtype = "float64" THEN 3 ELSE 2

RECURSIVE Pow2(_)
Pow2(e) == IF e = 0 THEN 1 ELSE 2 * Pow2(e - 1)

\* the spacing of the numbers of p bits around the magnitude n / d: the least
\* power of two g with n / d < 2^p * g
RECURSIVE Spacing(_, _, _, _)
Spacing(n, d, p, g) ==
  IF n < Pow2(p) * g * d THEN g ELSE Spacing(n, d, p, 2 * g)

\* the magnitude n / d (n >= 0, d > 0) rounded to p bits, ties to even
RoundMag(n, d, p) ==
  LET g == Spacing(n, d, p, 1)
      q == n \div (d * g)
      r == n - q * d * g
  IN  IF 2 * r < d * g THEN q * g
      ELSE IF 2 * r > d * g THEN (q + 1) * g
      ELSE IF q % 2 = 0 THEN q * g ELSE (q + 1) * g

\* num / den (den > 0) rounded to the nearest number of dtype, ties to even
Round(num, den, dtype) ==
  IF num >= 0 THEN RoundMag(num, den, Precision(dtype))
  ELSE 0 - RoundMag(0 - num, den, Precision(dtype))

\* the dtype of a result of two operands (type promotion)
Promote(d1, d2) == IF d1 = "float64" \/ d2 = "float64" THEN "float64" ELSE "float32"

FAdd(a, b, dtype) == Round(a + b, 1, dtype)
FSub(a, b, dtype) == Round(a - b, 1, dtype)
FMul(a, b, dtype) == Round(a * b, One, dtype)

\* Results of division and of log are records, so that the infinities, "not a
\* number" and the (symbolic) logarithms are values like the finite numbers.
Fin(n)    == [kind |-> "fin", a |-> n, b |-> 0]
PosInf    == [kind |-> "inf", a |-> 0, b |-> 0]
NegInf    == [kind |-> "-inf", a |-> 0, b |-> 0]
NaN       == [kind |-> "nan", a |-> 0, b |-> 0]
\* log(x), -log(x) and log(x) - log(y) for finite x, y > 0
LogOf(x)      == [kind |-> "log", a |-> x, b |-> 0]
NegLogOf(x)   == [kind |-> "neglog", a |-> x, b |-> 0]
LogDiff(x, y) == [kind |-> "logdiff", a |-> x, b |-> y]

\* a / b; x/0 is an infinity and 0/0 is not a number
FDiv(a, b, dtype) ==
  IF b = 0 THEN (IF a = 0 THEN NaN ELSE IF a > 0 THEN PosInf ELSE NegInf)
  ELSE IF b > 0 THEN Fin(Round(a * One, b, dtype))
  ELSE Fin(Round((0 - a) * One, 0 - b, dtype))

\* log(x): -infinity at 0, not a number below 0, 0 at 1.0, else symbolic
FLog(x) ==
  IF x = 0 THEN NegInf
  ELSE IF x < 0 THEN NaN
  ELSE IF x = One THEN Fin(0)
  ELSE LogOf(x)

\* a - b for two results of FLog
LogSub(a, b) ==
  IF a.kind = "nan" \/ b.kind = "nan" THEN NaN
  ELSE IF a.kind = "-inf" THEN (IF b.kind = "-inf" THEN NaN ELSE NegInf)
  ELSE IF b.kind = "-inf" THEN PosInf
  ELSE IF b.kind = "fin" THEN a
  ELSE IF a.kind = "fin" THEN NegLogOf(b.a)
  ELSE LogDiff(a.a, b.a)

(***************************************************************************)
(* Shapes and tensors.                                                     *)
(***************************************************************************)
RECURSIVE Numel(_)
Numel(s) == IF s = <<>> THEN 1 ELSE Head(s) * Numel(Tail(s))

\* shape s padded with leading 1s to rank r
Pad(s, r) == [i \in 1..r |-> IF i <= r - Len(s) THEN 1 ELSE s[i - (r - Len(s))]]

MaxOf(a, b) == IF a >= b THEN a ELSE b

\* whether two run-time shapes broadcast against each other
Broadcastable(s1, s2) ==
  LET r == MaxOf(Len(s1), Len(s2))
  IN  \A i \in 1..r : \/ Pad(s1, r)[i] = Pad(s2, r)[i]
                      \/ Pad(s1, r)[i] = 1
                      \/ Pad(s2, r)[i] = 1

\* the broadcast of two run-time shapes
BroadcastShape(s1, s2) ==
  LET r == MaxOf(Len(s1), Len(s2))
  IN  [i \in 1..r |-> IF Pad(s1, r)[i] = 1 THEN Pad(s2, r)[i] ELSE Pad(s1, r)[i]]

\* the shape the program builder infers for an elementwise result: a dimension
\* stays unresolved (-1) unless one operand fixes it to more than 1
StaticBroadcastShape(s1, s2) ==
  LET r == MaxOf(Len(s1), Len(s2))
      d(a, b) == IF a = -1 \/ b = -1
                 THEN (IF MaxOf(a, b) > 1 THEN MaxOf(a, b) ELSE -1)
                 ELSE IF a = 1 THEN b ELSE a
  IN  [i \in 1..r |-> d(Pad(s1, r)[i], Pad(s2, r)[i])]

\* the index (0-based, one entry per dimension) of the k-th element (0-based)
RECURSIVE Unflat(_, _)
Unflat(k, s) ==
  IF s = <<>> THEN <<>>
  ELSE LET n == Numel(Tail(s))
       IN  <<k \div n>> \o Unflat(k % n, Tail(s))

\* the row-major position (0-based) of index idx in shape s
RECURSIVE Flat(_, _)
Flat(idx, s) ==
  IF s = <<>> THEN 0
  ELSE Head(idx) * Numel(Tail(s)) + Flat(Tail(idx), Tail(s))

\* the position (1-based) in a tensor of shape s of the element that
\* broadcasting puts at position k (1-based) of a result of shape out
BIdx(k, out, s) ==
  LET idx == Unflat(k - 1, out)
      off == Len(out) - Len(s)
      own == [j \in 1..Len(s) |-> IF s[j] = 1 THEN 0 ELSE idx[off + j]]
  IN  1 + Flat(own, s)

Tensor(sshape, shape, dtype, data) ==
  [sshape |-> sshape, shape |-> shape, dtype |-> dtype, data |-> data]

NoTensor == Tensor(<<>>, <<>>, "none", <<>>)

\* x (+) y elementwise with broadcasting, Op(a, b, dtype) on the elements
Elementwise(Op(_, _, _), x, y) ==
  LET out == BroadcastShape(x.shape, y.shape)
      dt  == Promote(x.dtype, y.dtype)
  IN  Tensor(StaticBroadcastShape(x.sshape, y.sshape), out, dt,
             [k \in 1..Numel(out) |->
                Op(x.data[BIdx(k, out, x.shape)], y.data[BIdx(k, out, y.shape)], dt)])

TAdd(x, y) == Elementwise(FAdd, x, y)
TSub(x, y) == Elementwise(FSub, x, y)
TMul(x, y) == Elementwise(FMul, x, y)
TDiv(x, y) == Elementwise(FDiv, x, y)

\* x < y elementwise; the result is a bool tensor
FLess(a, b, dtype) == a < b
TLess(x, y) ==
  LET t == Elementwise(FLess, x, y)
  IN  [t EXCEPT !.dtype = "bool"]

\* paddle.cast: a bool becomes 1.0 or 0.0, a number is rounded to dtype
TCast(x, dtype) ==
  [x EXCEPT !.dtype = dtype,
            !.data = [k \in 1..Len(x.data) |->
                        IF x.dtype = "bool"
                        THEN (IF x.data[k] THEN One ELSE 0)
                        ELSE Round(x.data[k], 1, dtype)]]

\* paddle.log, elementwise
TLog(x) == [x EXCEPT !.data = [k \in 1..Len(x.data) |-> FLog(x.data[k])]]

\* x - y for two results of TLog
TLogSub(x, y) ==
  LET out == BroadcastShape(x.shape, y.shape)
  IN  Tensor(StaticBroadcastShape(x.sshape, y.sshape), out, Promote(x.dtype, y.dtype),
             [k \in 1..Numel(out) |->
                LogSub(x.data[BIdx(k, out, x.shape)], y.data[BIdx(k, out, y.shape)])])

\* paddle.full / paddle.zeros
TFull(shape, v, dtype) ==
  Tensor(shape, shape, dtype, [k \in 1..Numel(shape) |-> Round(v, 1, dtype)])

\* paddle.reshape(x, target): one -1 in target is inferred from the number of
\* elements; the element counts must agree.  ReshapeOK says whether the engine
\* accepts the call.
RECURSIVE ProdKnown(_)
ProdKnown(s) ==
  IF s = <<>> THEN 1
  ELSE (IF Head(s) = -1 THEN 1 ELSE Head(s)) * ProdKnown(Tail(s))

ReshapeShape(xshape, target) ==
  [i \in 1..Len(target) |->
     IF target[i] = -1 THEN Numel(xshape) \div ProdKnown(target) ELSE target[i]]

ReshapeOK(xshape, target) ==
  LET p == ProdKnown(target)
      unknown == {i \in 1..Len(target) : target[i] = -1}
  IN  /\ Cardinality(unknown) <= 1
      /\ unknown # {} => (p > 0 /\ Numel(xshape) % p = 0)
      /\ unknown = {} => p = Numel(xshape)

TReshape(x, target) ==
  [x EXCEPT !.sshape = target, !.shape = ReshapeShape(x.shape, target)]

(***************************************************************************)
(* The random source: paddle.uniform(shape, dtype, min=0.0, max=1.0, seed) *)
(* and uniform_random_batch_size_like.  A draw is a number of [0, 1) of    *)
(* the dtype.  With a seed other than 0 the draws are a function of the    *)
(* seed alone; with seed 0 they come from the global generator, whose      *)
(* state then moves on.                                                    *)
(***************************************************************************)
RngStates == 0..1

Stream(seed, g) == IF seed = 0 THEN g ELSE seed + 1

\* the k-th draw (1-based) of a stream
Draw(stream, k) == (3 * stream + k - 1) % One

TUniform(shape, dtype, seed, g) ==
  Tensor(shape, shape, dtype, [k \in 1..Numel(shape) |-> Draw(Stream(seed, g), k)])

NextRng(seed, g) == IF seed = 0 THEN (g + 1) % Cardinality(RngStates) ELSE g

(***************************************************************************)
(* Arguments.                                                              *)
(***************************************************************************)
\* the values parameters are made of: 1.0, 2.0, 3.0, 4.0
ParamVals == <<One, 2 * One, 3 * One, 4 * One>>

\* n consecutive values starting at the b-th
ParamData(b, n) == [i \in 1..n |-> ParamVals[((b + i - 2) % Len(ParamVals)) + 1]]

Arg(kind, dtype, sshape, shape, b) ==
  [kind |-> kind, dtype |-> dtype, sshape |-> sshape, shape |-> shape,
   data |-> ParamData(b, Numel(shape))]

\* what is passed as low or high that is no tensor
RawArgs ==
  {Arg("int", "int", <<>>, <<>>, 3)}
  \cup {Arg("float", "float64", <<>>, <<>>, b) : b \in {1, 2}}
  \cup {Arg("list", "float64", <<1>>, <<1>>, 1)}
  \cup {Arg("list", "float64", <<MaxDim>>, <<MaxDim>>, b) : b \in {1, 2}}
  \cup {Arg("tuple", "float64", <<MaxDim>>, <<MaxDim>>, 2)}
  \cup {Arg("ndarray", "float32", <<>>, <<>>, 1),
        Arg("ndarray", "float32", <<MaxDim>>, <<MaxDim>>, 2),
        Arg("ndarray", "float64", <<MaxDim>>, <<MaxDim>>, 1),
        Arg("ndarray", "float64", <<>>, <<>>, 2),
        Arg("ndarray", "int64", <<MaxDim>>, <<MaxDim>>, 1)}
  \cup {[kind |-> "str", dtype |-> "none", sshape |-> <<>>, shape |-> <<>>, data |-> <<>>]}

\* tensors: in the static mode the leading dimension may be unresolved
TensorArgs(m) ==
  {Arg("tensor", "float32", <<1>>, <<1>>, 1),
   Arg("tensor", "float32", <<MaxDim>>, <<MaxDim>>, 1),
   Arg("tensor", "float32", <<MaxDim>>, <<MaxDim>>, 2),
   Arg("tensor", "float64", <<1>>, <<1>>, 2),
   Arg("tensor", "float64", <<MaxDim>>, <<MaxDim>>, 2)}
  \cup (IF m = "static"
        THEN {Arg("tensor", "float32", <<-1>>, <<MaxDim>>, b) : b \in {1, 2}}
             \cup {Arg("tensor", "float32", <<-1, 1>>, <<1, 1>>, 2)}
        ELSE {})

Args(m) == RawArgs \cup TensorArgs(m)

AsTensor(a) == Tensor(a.sshape, a.shape, a.dtype, a.data)

\* the arguments of sample: shape is a list, or (wrongly) a tuple; seed is an
\* int, or (wrongly) a str
SampleDims == {<<>>} \cup {<<n>> : n \in 0..MaxDim} \cup {<<1, MaxDim>>}
ShapeArg(kind, dims) == [kind |-> kind, dims |-> dims]
SeedArg(kind, v) == [kind |-> kind, v |-> v]
SampleArgs ==
  {<<ShapeArg("list", s), SeedArg("int", n)>> : s \in SampleDims, n \in 0..MaxSeed}
  \cup {<<ShapeArg("tuple", <<MaxDim>>), SeedArg("int", 0)>>,
        <<ShapeArg("list", <<MaxDim>>), SeedArg("str", 0)>>}

\* the value argument of log_prob and probs
ValueVals == <<One + 1, One + 2, 2 * One, One>>
ValueArgs ==
  {Tensor(s, s, d, [i \in 1..Numel(s) |->
                      Round(ValueVals[((b + i - 2) % Len(ValueVals)) + 1], 1, d)]) :
     s \in {<<>>, <<MaxDim>>}, d \in FloatDtypes, b \in 1..3}

(***************************************************************************)
(* Results of a call: the exception raised (err, and the place that raised *)
(* it) or the tensor returned; the base draw a sample was made of; the     *)
(* number of tensors the call produced; the attributes __init__ assigned.  *)
(***************************************************************************)
Result(err, at, value, draw, made, attrs) ==
  [err |-> err, at |-> at, value |-> value, draw |-> draw, made |-> made,
   attrs |-> attrs]

Return(value, draw, made) == Result("none", "none", value, draw, made, {})
Raise(err, at, made) == Result(err, at, NoTensor, NoTensor, made, {})

NoObj ==
  [low |-> NoTensor, high |-> NoTensor, dtype |-> "none",
   all_arg_is_float |-> FALSE, batch_size_unknown |-> FALSE,
   name |-> "none", batch_shape |-> <<>>]

(***************************************************************************)
(* What Uniform uses of paddle.base.data_feeder and of the Distribution    *)
(* base class.                                                             *)
(***************************************************************************)
\* check_type(input, input_name, expected_type, op_name): a TypeError when the
\* input is of none of the expected types
check_type(kind, expected) == kind \in expected

\* Distribution._validate_args: TRUE when the arguments are tensors
\* (Variable, paddle.pir.Value)
_validate_args(low, high) == low.kind = "tensor" /\ high.kind = "tensor"

\* Distribution._validate_args raises when tensors and other values are mixed
MixedArgs(low, high) == (low.kind = "tensor") # (high.kind = "tensor")

\* Distribution._to_tensor accepts float, list, tuple, numpy.ndarray
ToTensorAccepts(a) == a.kind \in {"float", "list", "tuple", "ndarray"}

\* Distribution._to_tensor: both arguments as tensors of one dtype (conv) and of
\* their broadcast shape; a 0-d result has the shape zeroD (<<>> or <<1>>)
ToTensorOne(a, other, conv, zeroD) ==
  LET out == BroadcastShape(a.shape, other.shape)
      shp == IF out = <<>> THEN zeroD ELSE out
  IN  Tensor(shp, shp, conv,
             [k \in 1..Numel(out) |-> Round(a.data[BIdx(k, out, a.shape)], 1, conv)])

_to_tensor(low, high, conv, zeroD) ==
  <<ToTensorOne(low, high, conv, zeroD), ToTensorOne(high, low, conv, zeroD)>>

\* Distribution._check_values_dtype_in_probs(param, value): the value, cast to
\* the dtype of param when its own differs
_check_values_dtype_in_probs(param, value) ==
  IF value.dtype # param.dtype THEN TCast(value, param.dtype) ELSE value

(***************************************************************************)
(* Uniform.__init__                                                        *)
(***************************************************************************)
CheckedTypes == {"int", "float", "ndarray", "tensor", "list", "tuple"}

\* lines 165-168: an int becomes a float
CoerceInt(a) == IF a.kind = "int" THEN [a EXCEPT !.kind = "float", !.dtype = "float64"] ELSE a

\* as AllArgIsFloat, but one float is enough
AllArgIsFloat_Either(low, high) == low.kind = "float" \/ high.kind = "float"

\* lines 175-176
AllArgIsFloat(low, high) == low.kind = "float" /\ high.kind = "float"

\* lines 163, 177-186: the dtype of the raw path
ResolveDtype(low, high) ==
  IF low.kind = "ndarray" /\ low.dtype \in {"float32", "float64"} THEN low.dtype
  ELSE IF high.kind = "ndarray" /\ high.dtype \in {"float32", "float64"} THEN high.dtype
  ELSE "float32"

\* lines 188-190: both are cast when the dtype of low is not self.dtype
CastBoth(pair, dtype) ==
  IF dtype # pair[1].dtype
  THEN <<TCast(pair[1], dtype), TCast(pair[2], dtype)>>
  ELSE pair

\* line 192: the batch shape handed to Distribution.__init__
RecordedBatchShape(low, high) == low.sshape

AttrsBeforeArgs == {"all_arg_is_float", "batch_size_unknown", "name", "dtype"}

Obj(low, high, dtype, allFloat, name) ==
  [low |-> low, high |-> high, dtype |-> dtype, all_arg_is_float |-> allFloat,
   batch_size_unknown |-> FALSE, name |-> name,
   batch_shape |-> RecordedBatchShape(low, high)]

\* __init__: what the call ends with (res) and the object it leaves (obj)
Failed(res) == [res |-> res, obj |-> NoObj]

Uniform_init(m, low0, high0, name, conv, zeroD) ==
  LET low  == CoerceInt(low0)
      high == CoerceInt(high0)
      nm   == IF name # "None" THEN name ELSE "Uniform"
      all  == AttrsBeforeArgs \cup {"low", "high", "batch_shape"}
  IN  IF m = "static" /\ ~(check_type(low0.kind, CheckedTypes)
                           /\ check_type(high0.kind, CheckedTypes))
        THEN Failed(Raise("TypeError", "check_type", 0))
      ELSE IF MixedArgs(low, high)
        THEN Failed(Result("ValueError", "_validate_args", NoTensor, NoTensor, 0,
                           AttrsBeforeArgs))
      ELSE IF _validate_args(low, high)
        THEN [res |-> Result("none", "none", NoTensor, NoTensor, 0, all),
              obj |-> Obj(AsTensor(low), AsTensor(high), low.dtype, FALSE, nm)]
      ELSE IF ~(ToTensorAccepts(low) /\ ToTensorAccepts(high))
        THEN Failed(Result("TypeError", "_to_tensor", NoTensor, NoTensor, 0,
                           AttrsBeforeArgs))
      ELSE IF ~Broadcastable(low.shape, high.shape)
        THEN Failed(Result("ValueError", "_to_tensor", NoTensor, NoTensor, 0,
                           AttrsBeforeArgs))
      ELSE LET dt == ResolveDtype(low, high)
               p  == CastBoth(_to_tensor(low, high, conv, zeroD), dt)
           IN  [res |-> Result("none", "none", NoTensor, NoTensor,
                               IF dt # conv THEN 4 ELSE 2, all),
                obj |-> Obj(p[1], p[2], dt, AllArgIsFloat(low, high), nm)]

(***************************************************************************)
(* Uniform.sample                                                          *)
(***************************************************************************)
\* line 210: list((self.low + self.high).shape)
SampleBatchShape(obj) == TAdd(obj.low, obj.high).sshape

\* lines 212, 234: shape + batch_shape
OutputShape(shape, batch_shape) == shape \o batch_shape

\* lines 213-214: batch_shape + shape, its first entry the size at run time
FillShape(obj, shape, batch_shape) ==
  [(batch_shape \o shape) EXCEPT ![1] = TAdd(obj.low, obj.high).shape[1]]

\* lines 212-232: the batch shape has an unresolved dimension
SampleDynamic(obj, shape, seed, g) ==
  LET batch_shape  == SampleBatchShape(obj)
      output_shape == OutputShape(shape, batch_shape)
      fill_shape   == FillShape(obj, shape, batch_shape)
  IN  IF \E i \in 1..Len(fill_shape) : fill_shape[i] < 0
        THEN Raise("ValueError", "paddle.full", 1)
      ELSE IF seed.kind # "int"
        THEN Raise("TypeError", "uniform_random_batch_size_like", 2)
      ELSE IF ~ReshapeOK(fill_shape, output_shape)
        THEN Raise("ValueError", "paddle.reshape", 3)
      ELSE
        LET zero_tmp == TFull(fill_shape, 0, obj.dtype)
            uniform_random_tmp == TUniform(zero_tmp.shape, obj.dtype, seed.v, g)
            zero_tmp_reshape == TReshape(zero_tmp, output_shape)
            uniform_random_tmp_reshape == TReshape(uniform_random_tmp, output_shape)
        IN  IF ~Broadcastable(zero_tmp_reshape.shape, obj.high.shape)
               \/ ~Broadcastable(BroadcastShape(zero_tmp_reshape.shape, obj.high.shape),
                                 obj.low.shape)
              THEN Raise("ValueError", "broadcast", 5)
            ELSE
              LET output == TMul(uniform_random_tmp_reshape,
                                 TSub(TAdd(zero_tmp_reshape, obj.high), obj.low))
              IN  Return(TAdd(output, obj.low), uniform_random_tmp_reshape, 9)

\* as SampleStatic, but the draw is scaled by high, not by high - low
SampleStatic_ScaledByHigh(obj, shape, seed, g) ==
  LET batch_shape  == SampleBatchShape(obj)
      output_shape == OutputShape(shape, batch_shape)
  IN  IF seed.kind # "int"
        THEN Raise("TypeError", "paddle.uniform", 1)
      ELSE
        LET u == TUniform(output_shape, obj.dtype, seed.v, g)
            output == TMul(u, TAdd(TFull(output_shape, 0, obj.dtype), obj.high))
            out == TAdd(output, obj.low)
        IN  IF obj.all_arg_is_float
              THEN (IF ReshapeOK(out.shape, shape)
                    THEN Return(TReshape(out, shape), u, 7)
                    ELSE Raise("ValueError", "paddle.reshape", 6))
              ELSE Return(out, u, 6)

\* lines 234-245: the batch shape is static
SampleStatic(obj, shape, seed, g) ==
  LET batch_shape  == SampleBatchShape(obj)
      output_shape == OutputShape(shape, batch_shape)
  IN  IF seed.kind # "int"
        THEN Raise("TypeError", "paddle.uniform", 1)
      ELSE
        LET u == TUniform(output_shape, obj.dtype, seed.v, g)
            output == TMul(u, TAdd(TFull(output_shape, 0, obj.dtype),
                                   TSub(obj.high, obj.low)))
            out == TAdd(output, obj.low)
        IN  IF obj.all_arg_is_float
              THEN (IF ReshapeOK(out.shape, shape)
                    THEN Return(TReshape(out, shape), u, 7)
                    ELSE Raise("ValueError", "paddle.reshape", 6))
              ELSE Return(out, u, 6)

\* as SampleArgsChecked, but the arguments are checked in both modes
SampleArgsChecked_InBothModes(m, shape, seed) ==
  check_type(shape.kind, {"list"}) /\ check_type(seed.kind, {"int"})

\* line 211: -1 in batch_shape
IsStaticShape(s) == \A i \in 1..Len(s) : s[i] # -1

\* lines 205-207: the arguments are checked in the static mode only
SampleArgsChecked(m, shape, seed) ==
  m = "static" => (check_type(shape.kind, {"list"}) /\ check_type(seed.kind, {"int"}))

sample(obj, shape, seed, m, g) ==
  IF ~SampleArgsChecked(m, shape, seed)
    THEN Raise("TypeError", "check_type", 0)
  ELSE IF ~Broadcastable(obj.low.shape, obj.high.shape)
    THEN Raise("ValueError", "broadcast", 0)
  ELSE IF shape.kind # "list"
    \* a tuple and a list do not concatenate
    THEN Raise("TypeError", "Uniform.sample", 1)
  ELSE IF ~IsStaticShape(SampleBatchShape(obj))
    THEN SampleDynamic(obj, shape.dims, seed, g)
  ELSE SampleStatic(obj, shape.dims, seed, g)

(***************************************************************************)
(* Uniform.log_prob, Uniform.probs, Uniform.entropy                        *)
(***************************************************************************)
\* whether low, high and the value broadcast against each other
ValueBroadcasts(obj, value) ==
  /\ Broadcastable(obj.low.shape, value.shape)
  /\ Broadcastable(value.shape, obj.high.shape)
  /\ Broadcastable(obj.low.shape, obj.high.shape)
  /\ Broadcastable(BroadcastShape(obj.low.shape, value.shape),
                   BroadcastShape(value.shape, obj.high.shape))

\* as LowerBound, but the comparison is low <= value
FLessEq(a, b, dtype) == a <= b
LowerBound_Inclusive(obj, value) ==
  TCast([Elementwise(FLessEq, obj.low, value) EXCEPT !.dtype = "bool"], value.dtype)

\* lines 260-264 and 268-271: the two indicators, as numbers of value's dtype
LowerBound(obj, value) == TCast(TLess(obj.low, value), value.dtype)
UpperBound(obj, value) == TCast(TLess(value, obj.high), value.dtype)

log_prob(obj, value0, m) ==
  LET value == _check_values_dtype_in_probs(obj.low, value0)
  IN  IF ~ValueBroadcasts(obj, value) THEN Raise("ValueError", "broadcast", 0)
      ELSE IF m = "dynamic"
        THEN Return(TLogSub(TLog(TMul(LowerBound(obj, value), UpperBound(obj, value))),
                            TLog(TSub(obj.high, obj.low))), NoTensor, 8)
        ELSE Return(TLogSub(TLog(TMul(LowerBound(obj, value), UpperBound(obj, value))),
                            TLog(TSub(obj.high, obj.low))), NoTensor, 8)

probs(obj, value0, m) ==
  LET value == _check_values_dtype_in_probs(obj.low, value0)
  IN  IF ~ValueBroadcasts(obj, value) THEN Raise("ValueError", "broadcast", 0)
      ELSE IF m = "dynamic"
        THEN Return(TDiv(TMul(LowerBound(obj, value), UpperBound(obj, value)),
                         TSub(obj.high, obj.low)), NoTensor, 6)
        ELSE Return(TDiv(TMul(LowerBound(obj, value), UpperBound(obj, value)),
                         TSub(obj.high, obj.low)), NoTensor, 6)

entropy(obj) ==
  IF ~Broadcastable(obj.low.shape, obj.high.shape)
    THEN Raise("ValueError", "broadcast", 0)
    ELSE Return(TLog(TSub(obj.high, obj.low)), NoTensor, 2)

(***************************************************************************)
(* The state machine.                                                      *)
(***************************************************************************)
Modes == {"dynamic", "static"}

NoArg == [kind |-> "none", dtype |-> "none", sshape |-> <<>>, shape |-> <<>>, data |-> <<>>]
NoShapeArg == [kind |-> "none", dims |-> <<>>]
NoSeedArg == [kind |-> "none", v |-> 0]

Call(op, shape, seed, value, res) ==
  [op |-> op, shape |-> shape, seed |-> seed, value |-> value, res |-> res]

Init ==
  /\ mode \in Modes
  /\ given = [low |-> NoArg, high |-> NoArg]
  /\ self = NoObj
  /\ rng \in RngStates
  /\ last = Call("none", NoShapeArg, NoSeedArg, NoTensor, Raise("none", "none", 0))

Constructed == self # NoObj
Idle == Call("idle", NoShapeArg, NoSeedArg, NoTensor, Raise("none", "none", 0))

\* Uniform(low, high)
Construct ==
  /\ last.op = "none"
  /\ \E low \in Args(mode), high \in Args(mode), conv \in FloatDtypes,
        zeroD \in {<<>>, <<1>>} :
       LET r == Uniform_init(mode, low, high, "None", conv, zeroD)
       IN  /\ given' = [low |-> low, high |-> high]
           /\ self' = r.obj
           /\ last' = Call("__init__", NoShapeArg, NoSeedArg, NoTensor, r.res)
  /\ UNCHANGED <<mode, rng>>

\* as Sample, but sample notes on the object that it has met an unresolved
\* batch size
Sample_MarksBatchSizeUnknown ==
  /\ Constructed
  /\ last.op = "idle"
  /\ \E a \in SampleArgs :
       LET r == sample(self, a[1], a[2], mode, rng)
       IN  /\ last' = Call("sample", a[1], a[2], NoTensor, r)
           /\ rng' = IF r.err = "none" THEN NextRng(a[2].v, rng) ELSE rng
           /\ self' = [self EXCEPT !.batch_size_unknown = ~IsStaticShape(SampleBatchShape(self))]
  /\ UNCHANGED <<mode, given>>

\* self.sample(shape, seed)
Sample ==
  /\ Constructed
  /\ last.op = "idle"
  /\ \E a \in SampleArgs :
       LET r == sample(self, a[1], a[2], mode, rng)
       IN  /\ last' = Call("sample", a[1], a[2], NoTensor, r)
           /\ rng' = IF r.err = "none" THEN NextRng(a[2].v, rng) ELSE rng
  /\ UNCHANGED <<mode, given, self>>

\* self.log_prob(value)
LogProb ==
  /\ Constructed
  /\ last.op = "idle"
  /\ \E value \in ValueArgs :
       last' = Call("log_prob", NoShapeArg, NoSeedArg, value, log_prob(self, value, mode))
  /\ UNCHANGED <<mode, given, self, rng>>

\* self.probs(value)
Probs ==
  /\ Constructed
  /\ last.op = "idle"
  /\ \E value \in ValueArgs :
       last' = Call("probs", NoShapeArg, NoSeedArg, value, probs(self, value, mode))
  /\ UNCHANGED <<mode, given, self, rng>>

\* self.entropy()
Entropy ==
  /\ Constructed
  /\ last.op = "idle"
  /\ last' = Call("entropy", NoShapeArg, NoSeedArg, NoTensor, entropy(self))
  /\ UNCHANGED <<mode, given, self, rng>>

\* the caller is done with the result of the last call
Discard ==
  /\ last.op \notin {"none", "idle"}
  /\ last' = Idle
  /\ UNCHANGED <<mode, given, self, rng>>

Next == Construct \/ Sample \/ LogProb \/ Probs \/ Entropy \/ Discard

Spec == Init /\ [][Next]_vars

(***************************************************************************)
(* Vocabulary of the properties.                                           *)
(***************************************************************************)
Returned(op) == last.op = op /\ last.res.err = "none"

\* low or high was given as a bare scalar: a Python float or int
BareScalar(a) == a.kind \in {"int", "float"}

\* sample was called as its signature asks: a list and an int
SampleCalledWell == last.op = "sample" /\ last.shape.kind = "list" /\ last.seed.kind = "int"

\* the shape low and high broadcast to when the program runs
RunBatchShape == BroadcastShape(self.low.shape, self.high.shape)

\* C1: for a Uniform with a fully static batch shape and a list of non-negative
\* ints, sample(shape) returns a tensor of shape shape ++ batch_shape, the batch
\* shape being the one recorded at construction.
C1_SampleShapeIsShapeThenBatchShape ==
  (Constructed /\ SampleCalledWell /\ IsStaticShape(self.batch_shape))
    => /\ last.res.err = "none"
       /\ last.res.value.shape = last.shape.dims \o self.batch_shape

\* C2: when low and high were both bare scalars, sample(shape) returns a tensor
\* of shape exactly shape; in every other construction nothing is squeezed and
\* the result is shape followed by the batch dimensions.
C2_ScalarSqueeze ==
  Returned("sample")
    => IF BareScalar(given.low) /\ BareScalar(given.high)
       THEN last.res.value.shape = last.shape.dims
       ELSE last.res.value.shape = last.shape.dims \o RunBatchShape

\* C2's cases: Uniform(3.0, 4.0).sample([2]) of a scalar kept as a 1-d tensor,
\* and Uniform([0.0], [2.0]).sample([2])
C2_Witness ==
  /\ Returned("sample")
  /\ last.shape.dims = <<MaxDim>>
  /\ self.low.shape = <<1>>
  /\ \/ BareScalar(given.low) /\ BareScalar(given.high) /\ last.res.value.shape = <<MaxDim>>
     \/ given.low.kind = "list" /\ given.high.kind = "list"
          /\ last.res.value.shape = <<MaxDim, 1>>

\* C9: the batch_shape recorded at construction is the broadcast shape of low
\* and high: entropy() has exactly that shape, and it is the batch shape sample
\* uses.
C9_BatchShapeIsBroadcastShape ==
  (Constructed /\ Broadcastable(self.low.shape, self.high.shape))
    => /\ self.batch_shape = StaticBroadcastShape(self.low.sshape, self.high.sshape)
       /\ self.batch_shape = SampleBatchShape(self)
       /\ Returned("entropy") => last.res.value.sshape = self.batch_shape

\* C10: after construction low and high both have the dtype self.dtype, which
\* is float32 or float64: the dtype of low on the tensor path; on the raw path
\* float32 unless low, else high, is a float32 or float64 buffer.
IsFloatBuffer(a) == a.kind = "ndarray" /\ a.dtype \in FloatDtypes
C10_SharedDtype ==
  Constructed
    => /\ self.dtype \in FloatDtypes
       /\ self.low.dtype = self.dtype
       /\ self.high.dtype = self.dtype
       /\ given.low.kind = "tensor" => self.dtype = given.low.dtype
       /\ given.low.kind # "tensor"
            => self.dtype = (IF IsFloatBuffer(given.low) THEN given.low.dtype
                             ELSE IF IsFloatBuffer(given.high) THEN given.high.dtype
                             ELSE "float32")

(***************************************************************************)
(* Densities.                                                              *)
(***************************************************************************)
\* the element of tensor x that stands at position k of a result of shape out
At(x, k, out) == x.data[BIdx(k, out, x.shape)]

\* low < high at every batch position
LowBelowHigh ==
  /\ Broadcastable(self.low.shape, self.high.shape)
  /\ \A k \in 1..Numel(RunBatchShape) :
       At(self.low, k, RunBatchShape) < At(self.high, k, RunBatchShape)

\* the value as log_prob and probs compare it: converted to the dtype of low
Compared(value) == IF value.dtype # self.low.dtype THEN TCast(value, self.low.dtype) ELSE value

\* 1 / (high - low) and -log(high - low) in the arithmetic of dtype dt
Density(l, h, hl, dt) == FDiv(One, FSub(h, l, hl), dt)
MinusLog(l, h, hl) == IF FSub(h, l, hl) = One THEN Fin(0) ELSE NegLogOf(FSub(h, l, hl))

\* the result of probs (or log_prob) is, at every position, the density (or its
\* log) where Inside(low, value, high) holds and 0 (or -infinity) elsewhere
DensityIs(Inside(_, _, _), v) ==
  LET out == last.res.value.shape
      hl  == Promote(self.high.dtype, self.low.dtype)
      dt  == Promote(Compared(last.value).dtype, hl)
  IN  \A k \in 1..Numel(out) :
        LET l == At(self.low, k, out)
            h == At(self.high, k, out)
            x == At(v, k, out)
        IN  /\ Returned("probs") =>
                 last.res.value.data[k] =
                   (IF Inside(l, x, h) THEN Density(l, h, hl, dt) ELSE Fin(0))
            /\ Returned("log_prob") =>
                 last.res.value.data[k] =
                   (IF Inside(l, x, h) THEN MinusLog(l, h, hl) ELSE NegInf)

OpenInterval(l, x, h) == l < x /\ x < h
HalfOpenInterval(l, x, h) == l <= x /\ x < h

DensityCalled == (Returned("probs") \/ Returned("log_prob")) /\ LowBelowHigh

C4_HalfOpenSupport ==
  (Returned("probs") /\ LowBelowHigh) => DensityIs(HalfOpenInterval, Compared(last.value))

(***************************************************************************)
(* Samples.                                                                *)
(***************************************************************************)
\* every element of the sample is low + u * (high - low) of its batch position,
\* u being the base draw at its place, and lies between low and Top(low, high)
SampleIsRescaledDraw(InRange(_, _, _, _)) ==
  LET out == last.res.value.shape
      hl  == Promote(self.high.dtype, self.low.dtype)
      dt  == Promote(self.dtype, hl)
  IN  \A k \in 1..Numel(out) :
        LET l == At(self.low, k, out)
            h == At(self.high, k, out)
            u == last.res.draw.data[k]
            x == last.res.value.data[k]
        IN  /\ 0 <= u /\ u < One
            /\ x = FAdd(FMul(u, FSub(h, l, hl), dt), l, dt)
            /\ InRange(l, x, h, dt)

\* a seed other than 0 fixes the sample, whatever the global generator holds
SeedFixesSample ==
  last.seed.v # 0 =>
    \A g \in RngStates : sample(self, last.shape, last.seed, mode, g).value = last.res.value

InHalfOpen(l, x, h, dt) == l <= x /\ x < h
\* up to the rounding of low + (high - low)
InClosedRounded(l, x, h, dt) ==
  l <= x /\ x <= FAdd(l, FSub(h, l, Promote(self.high.dtype, self.low.dtype)), dt)

\* C5 as stated: with low < high every element of sample(shape) is
\* low + u * (high - low) for its base draw u of [0, 1) and lies in [low, high);
\* a fixed nonzero seed gives the same tensor again.
C5_SampleInHalfOpenInterval ==
  (Returned("sample") /\ LowBelowHigh)
    => SampleIsRescaledDraw(InHalfOpen) /\ SeedFixesSample

\* C5, amended: every element is the rounded low + u * (high - low); it is at
\* least low and at most the rounded low + (high - low), so that rounding can
\* bring it up to high; a fixed nonzero seed gives the same tensor again.
C5_SampleInRoundedInterval ==
  (Returned("sample") /\ LowBelowHigh)
    => SampleIsRescaledDraw(InClosedRounded) /\ SeedFixesSample

\* C5's case: a sample under a nonzero seed with an element rounded up to high
C5_Witness ==
  /\ Returned("sample")
  /\ LowBelowHigh
  /\ last.seed.v # 0
  /\ \E k \in 1..Numel(last.res.value.shape) :
       /\ last.res.value.data[k] = At(self.high, k, last.res.value.shape)
       /\ last.res.draw.data[k] > 0

\* C6: when the leading batch dimension is unresolved, sample(shape) returns a
\* tensor of shape shape ++ batch_shape, the unresolved dimension being the
\* size of dimension 0 of low + high when the program runs.
LeadingUnresolved(s) == Len(s) > 0 /\ s[1] = -1 /\ IsStaticShape(Tail(s))
C6_DynamicBatchSampleShape ==
  (Constructed /\ SampleCalledWell
     /\ Broadcastable(self.low.shape, self.high.shape)
     /\ LeadingUnresolved(SampleBatchShape(self)))
    => /\ last.res.err = "none"
       /\ last.res.value.shape =
            last.shape.dims \o [SampleBatchShape(self) EXCEPT ![1] = RunBatchShape[1]]

(***************************************************************************)
(* Argument checks and the frame.                                          *)
(***************************************************************************)
BadParam(a) == a.kind \notin CheckedTypes
BadCall ==
  \/ last.op = "__init__" /\ (BadParam(given.low) \/ BadParam(given.high))
  \/ last.op = "sample" /\ (last.shape.kind # "list" \/ last.seed.kind # "int")

\* in the static mode a bad argument is refused by check_type before anything
\* is assigned or computed
CheckedModeRefuses ==
  (mode = "static" /\ BadCall)
    => /\ last.res.err = "TypeError" /\ last.res.at = "check_type"
       /\ last.res.attrs = {} /\ last.res.made = 0
       /\ last.op = "__init__" => self = NoObj

\* the places of uniform.py itself that raise
InModule == {"check_type", "Uniform.__init__", "Uniform.sample"}

\* C7 as stated: in the static mode a bad low, high, shape or seed fails with
\* the type error of the argument check before any attribute is set or tensor
\* produced; in the dynamic mode the module itself never raises that error.
C7_NoTypeErrorInDynamicMode ==
  /\ CheckedModeRefuses
  /\ mode = "dynamic" => ~(last.res.err = "TypeError" /\ last.res.at \in InModule)

\* C7, amended: in the dynamic mode the argument check never raises; a bad low
\* or high is refused by the tensor conversion once the first attributes are
\* set, and a shape that is no list is refused with a TypeError by sample
\* itself, at shape + batch_shape, once low + high is computed.
C7_ModeGatedCheck ==
  /\ CheckedModeRefuses
  /\ mode = "dynamic" =>
       /\ last.res.at # "check_type"
       /\ (last.op = "__init__" /\ (BadParam(given.low) \/ BadParam(given.high)))
            => /\ last.res.err \in {"TypeError", "ValueError"}
               /\ last.res.at \in {"_to_tensor", "_validate_args"}
               /\ last.res.attrs = AttrsBeforeArgs
       /\ (last.op = "sample" /\ last.shape.kind # "list")
            => /\ last.res.err = "TypeError" /\ last.res.at = "Uniform.sample"
               /\ last.res.made = 1

\* C7's case: sample is given a tuple in the dynamic mode
C7_Witness ==
  /\ mode = "dynamic"
  /\ last.op = "sample"
  /\ last.shape.kind = "tuple"
  /\ last.res.err = "TypeError"

\* C8: sample, log_prob, probs and entropy leave low, high, dtype, batch_shape,
\* the all-scalar flag and the name of the distribution as construction left
\* them.
C8_ImmutableAfterConstruction == [][Constructed => self' = self]_vars

\* C8's case: a sample drawn from the global generator has returned
C8_Witness ==
  /\ Returned("sample")
  /\ last.seed.v = 0
  /\ last.res.value.shape = <<MaxDim, MaxDim>>

====
